---- MODULE Spec2Model ----
(***************************************************************************)
(* A model of the NeuralLearn backend: the document indexer and the        *)
(* retrieval-augmented query pipeline (backend/rag_system.py), their HTTP  *)
(* handlers (backend/server.py), and the quiz generator and quiz scoring   *)
(* (backend/quiz_generator.py, backend/server.py).                         *)
(*                                                                         *)
(* The language model ("Provider"), the vector store, the PDF loader and   *)
(* the text splitter are external collaborators: each call either raises   *)
(* or returns a value drawn from a small set.  Python dicts are functions  *)
(* whose DOMAIN is the dict's key set; formatted strings are tuples of     *)
(* their parts.                                                            *)
(***************************************************************************)
EXTENDS Integers, Sequences, FiniteSets, TLC

VARIABLES
    collections,   \* vector store: owner id -> sequence of stored chunks
    documents,     \* relational store: the rows of the documents table
    up,            \* the /documents/upload request being served
    inv,           \* the /query requests: invocation -> its local variables
    quiz,          \* relational store: the rows of the quizzes table
    results,       \* relational store: the rows of the quiz_results table
    progress,      \* relational store: user id -> the user's progress row
    sub,           \* the last /quiz or /progress request and its response
    subm,          \* quiz submissions served by concurrent workers
    kg             \* the knowledge_graphs rows and the last /knowledge-graph response

vars == <<collections, documents, up, inv, quiz, results, progress, sub, subm, kg>>

ragVars  == <<collections, documents, up, inv>>
quizVars == <<quiz, results, progress, sub>>
kgVars   == <<subm, kg>>

\* ------------------------------------------------------------------ bounds
MaxDocs == 2           \* uploads served in one behaviour
MaxLen == 5            \* tokens in one Provider response to the quiz prompt
MaxAnswers == 2        \* questions an answers map may cover
MaxSubmits == 2        \* quiz submissions served in one behaviour
MaxGraphLen == 5       \* tokens in one Provider response to the graph prompt
MaxStudy == 2          \* minutes of study time a user reports in one behaviour

\* --------------------------------------------------------------- constants
K == 5                 \* similarity_search(k=5)
LayoutScale == 300     \* pos[...] * 300

Owners == {1, 2}
Invocations == {1, 2}
Questions == {"what is tla", "who is lamport"}
Modes == {"Quick Learner", "Deep Diver"}
Sections == {"beginning", "middle", "end"}
SearchTexts == {"tla"}
Completions == {"answer one", "answer two"}
PriorMessages == {<<>>, <<[role |-> "user", content |-> "hello"]>>}
Files == {"notes.pdf", "corrupt.pdf"}

None == "None"

\* a dict lookup d.get(k): None when the key is absent
Get(d, k) == IF k \in DOMAIN d THEN d[k] ELSE None

\* the first n elements of a sequence
Take(s, n) == IF Len(s) <= n THEN s ELSE SubSeq(s, 1, n)

\* ---------------------------------------------------------------- indexer
\* PyPDFLoader(file_path).load() followed by text_splitter.split_documents:
\* the chunk texts of a readable file; an unreadable file raises.
Loadable(file) == file # "corrupt.pdf"

split_documents(file) ==
    IF file = "notes.pdf" THEN <<"n1", "n2", "n3">> ELSE <<"m1">>

\* the collection a user id names: f"user_{user_id}_docs"
collection_name(user_id) == user_id

\* index_document(file_path, user_id, doc_id); storeOk is whether the
\* embedding / add_documents call succeeds.  Returns the raise-or-return
\* outcome and the vector store afterwards.
\* (fault variant: the chunks go to another owner's collection)
index_document_wrong_collection(store, file, user_id, doc_id, storeOk) ==
    IF ~Loadable(file) \/ ~storeOk
    THEN [raised |-> TRUE, count |-> 0, store |-> store]
    ELSE LET texts == split_documents(file)
             chunks == [n \in 1..Len(texts) |->
                          [page_content |-> texts[n],
                           metadata |-> [user_id |-> user_id, doc_id |-> doc_id]]]
             name == collection_name(CHOOSE o \in Owners : o # user_id)
         IN [raised |-> FALSE, count |-> Len(chunks),
             store |-> [store EXCEPT ![name] = @ \o chunks]]

\* (fault variant: a failure is swallowed and a count of 0 is returned)
index_document_swallows(store, file, user_id, doc_id, storeOk) ==
    IF ~Loadable(file) \/ ~storeOk
    THEN [raised |-> FALSE, count |-> 0, store |-> store]
    ELSE LET texts == split_documents(file)
             chunks == [n \in 1..Len(texts) |->
                          [page_content |-> texts[n],
                           metadata |-> [user_id |-> user_id, doc_id |-> doc_id]]]
             name == collection_name(user_id)
         IN [raised |-> FALSE, count |-> Len(chunks),
             store |-> [store EXCEPT ![name] = @ \o chunks]]

\* index_document as the source has it
index_document(store, file, user_id, doc_id, storeOk) ==
    IF ~Loadable(file) \/ ~storeOk
    THEN [raised |-> TRUE, count |-> 0, store |-> store]
    ELSE LET texts == split_documents(file)
             chunks == [n \in 1..Len(texts) |->
                          [page_content |-> texts[n],
                           metadata |-> [user_id |-> user_id, doc_id |-> doc_id]]]
             name == collection_name(user_id)
         IN [raised |-> FALSE, count |-> Len(chunks),
             store |-> [store EXCEPT ![name] = @ \o chunks]]

\* ------------------------------------------------------ upload_document
NoResponse == [status |-> 0]

IdleUpload ==
    [pc |-> "idle", user_id |-> 0, file |-> None, doc_id |-> 0, storeOk |-> TRUE,
     chunks_count |-> 0, index_calls |-> 0, response |-> NoResponse]

\* HTTPException(status_code=500): the handler's except clause
UploadError(u) == [u EXCEPT !.pc = "idle", !.response = [status |-> 500]]

\* the file is saved and the Document row is added and committed
UploadBegin(user_id, file) ==
    /\ up.pc = "idle"
    /\ Len(documents) < MaxDocs
    /\ LET id == Len(documents) + 1
       IN /\ documents' = Append(documents,
                 [id |-> id, user_id |-> user_id, filename |-> file,
                  content_preview |-> None])
          /\ up' = [IdleUpload EXCEPT !.pc = "index", !.user_id = user_id,
                       !.file = file, !.doc_id = id]
    /\ UNCHANGED <<collections, inv, quizVars, kgVars>>

\* chunks_count = await rag_system.index_document(str(file_path), user_id, doc.id)
UploadIndex(storeOk) ==
    /\ up.pc = "index"
    /\ LET r == index_document(collections, up.file, up.user_id, up.doc_id, storeOk)
           u == [up EXCEPT !.index_calls = @ + 1, !.storeOk = storeOk]
       IN /\ collections' = r.store
          /\ up' = IF r.raised THEN UploadError(u)
                   ELSE [u EXCEPT !.pc = "summary", !.chunks_count = r.count]
    /\ UNCHANGED <<documents, inv, quizVars, kgVars>>

\* summary = await rag_system.generate_summary(...); doc.content_preview = summary
UploadSummary(llmOk) ==
    /\ up.pc = "summary"
    /\ IF llmOk
       THEN /\ documents' = [documents EXCEPT ![up.doc_id].content_preview = "summary"]
            /\ up' = [up EXCEPT !.pc = "topics"]
       ELSE /\ up' = UploadError(up)
            /\ UNCHANGED documents
    /\ UNCHANGED <<collections, inv, quizVars, kgVars>>

\* topics_text = await rag_system.extract_topics(...); the success response
UploadTopics(llmOk) ==
    /\ up.pc = "topics"
    /\ up' = IF llmOk
             THEN [up EXCEPT !.pc = "idle",
                      !.response = [status |-> 200, chunks_indexed |-> up.chunks_count]]
             ELSE UploadError(up)
    /\ UNCHANGED <<collections, documents, inv, quizVars, kgVars>>

UploadNext ==
    \/ \E user_id \in Owners, file \in Files : UploadBegin(user_id, file)
    \/ \E storeOk \in BOOLEAN : UploadIndex(storeOk)
    \/ \E llmOk \in BOOLEAN : UploadSummary(llmOk)
    \/ \E llmOk \in BOOLEAN : UploadTopics(llmOk)

\* ------------------------------------------------------- the RAG pipeline
\* what one Provider / Vector Store call of a stage does: the structured
\* output and the completion the language model would return, and whether
\* the language model call and the vector store call succeed
StructuredQueries == [query : SearchTexts, section : Sections]

Outcomes == [llmOk : BOOLEAN, storeOk : BOOLEAN,
             structured : StructuredQueries, text : Completions]

\* the outcomes that differ for a stage: the rewrite stage calls the language
\* model in structured-output mode, the retrieve stage the vector store, the
\* generate stage and the fallback the language model
DefaultOutcome ==
    [llmOk |-> TRUE, storeOk |-> TRUE,
     structured |-> [query |-> "tla", section |-> "beginning"], text |-> "answer one"]

OutcomesOf(node) ==
    CASE node = "analyze_query" ->
           {o \in Outcomes : o.storeOk /\ o.text = DefaultOutcome.text
                               /\ (~o.llmOk => o.structured = DefaultOutcome.structured)}
      [] node = "retrieve" ->
           {o \in Outcomes : o.llmOk /\ o.text = DefaultOutcome.text
                               /\ o.structured = DefaultOutcome.structured}
      [] OTHER ->
           {o \in Outcomes : o.storeOk /\ o.structured = DefaultOutcome.structured
                               /\ (~o.llmOk => o.text = DefaultOutcome.text)}

\* a collaborator call as the invocation made it, with the response it got
Call(api, request, ok, response) ==
    [api |-> api, request |-> request, ok |-> ok,
     response |-> IF ok THEN response ELSE None]

\* vectorstore.similarity_search(text, k, filter): the first k chunks of the
\* collection that pass the filter (the similarity order is the store's)
similarity_search(collection, text, k, section) ==
    Take(SelectSeq(collection, LAMBDA doc : Get(doc.metadata, "section") = section), k)

\* _analyze_query: the structured output replaces the state's "query" entry
_analyze_query(state, store, out) ==
    [raised |-> ~out.llmOk,
     update |-> [query |-> out.structured],
     calls |-> <<Call("with_structured_output", state.question, out.llmOk,
                      out.structured)>>]

\* _retrieve: state["query"]["user_id"] is read before the store is touched
_retrieve(state, store, out) ==
    LET query == state.query
    IN IF "user_id" \notin DOMAIN query \/ "query" \notin DOMAIN query
       THEN [raised |-> TRUE, update |-> <<>>, calls |-> <<>>]
       ELSE [raised |-> ~out.storeOk \/ "section" \notin DOMAIN query,
             update |-> [context |->
                 IF "section" \in DOMAIN query
                 THEN similarity_search(store[collection_name(query.user_id)],
                                        query.query, K, query.section)
                 ELSE <<>>],
             calls |-> <<Call("similarity_search",
                              <<collection_name(query.user_id), query.query>>,
                              out.storeOk, None)>>]

\* "\n\n".join(doc.page_content for doc in state["context"])
docs_content(context) == [n \in 1..Len(context) |-> context[n].page_content]

\* _generate: the system message with the retrieved texts, then the prior
\* messages, go to the language model
_generate(state, store, out) ==
    IF "context" \notin DOMAIN state
    THEN [raised |-> TRUE, update |-> <<>>, calls |-> <<>>]
    ELSE [raised |-> ~out.llmOk,
          update |-> [answer |-> out.text],
          calls |-> <<Call("invoke",
                           <<docs_content(state.context), Get(state, "messages")>>,
                           out.llmOk, out.text)>>]

\* (fault variant of the edges: analyze_query is wired to generate)
Successor_skips_retrieve(node) ==
    CASE node = "analyze_query" -> "generate"
      [] node = "retrieve" -> "generate"
      [] node = "generate" -> "END"

\* _build_graph: START -> analyze_query -> retrieve -> generate -> END
Successor(node) ==
    CASE node = "analyze_query" -> "retrieve"
      [] node = "retrieve" -> "generate"
      [] node = "generate" -> "END"

Nodes == {"analyze_query", "retrieve", "generate"}

RunNode(node, state, store, out) ==
    CASE node = "analyze_query" -> _analyze_query(state, store, out)
      [] node = "retrieve" -> _retrieve(state, store, out)
      [] node = "generate" -> _generate(state, store, out)

\* the pipeline stage a graph position stands for
StageOf(node) ==
    CASE node = "analyze_query" -> "REWRITING"
      [] node = "retrieve" -> "RETRIEVING"
      [] node = "generate" -> "GENERATING"
      [] node = "END" -> "DONE"

\* initial_state of query_documents
initial_state(query, user_id, messages) ==
    [question |-> query, messages |-> messages, query |-> [user_id |-> user_id]]

\* the return value built from final_state
pipeline_result(final_state) ==
    [answer |-> final_state.answer,
     sources |-> [n \in 1..Len(final_state.context) |->
                    [content |-> final_state.context[n].page_content,
                     metadata |-> final_state.context[n].metadata]]]

\* (fault variant: the rewritten search text is sent instead of the question)
fallback_prompt_rewritten(mode, query, state) == <<mode, ": ", Get(state.query, "query")>>

\* the degraded request of the except clause: f"{mode}: {query}"
fallback_prompt(mode, query, state) == <<mode, ": ", query>>

NoResult == [answer |-> None, sources |-> <<>>]

IdleInvocation ==
    [pc |-> "idle", question |-> None, user_id |-> 0, mode |-> None,
     messages |-> <<>>, state |-> <<>>, trace |-> <<>>, calls |-> <<>>,
     result |-> NoResult, status |-> 0, indexed |-> FALSE]

\* (fault variant: the pipeline state is kept on the shared RAGSystem object,
\* so a stage reads the state of whichever other invocation is in its graph)
state_of_shared(i) ==
    IF \E j \in Invocations \ {i} : inv[j].pc \in Nodes
    THEN inv[CHOOSE j \in Invocations \ {i} : inv[j].pc \in Nodes].state
    ELSE inv[i].state

\* the pipeline state an invocation's stage reads: a local of query_documents
state_of(i) == inv[i].state

\* query_rag calls query_documents, which builds the graph and its state
StartQuery(i, query, user_id, mode, messages) ==
    /\ inv[i].pc \in {"idle", "done"}
    /\ inv' = [inv EXCEPT ![i] =
                 [IdleInvocation EXCEPT !.pc = "analyze_query", !.question = query,
                     !.user_id = user_id, !.mode = mode, !.messages = messages,
                     !.state = initial_state(query, user_id, messages),
                     !.trace = <<"REWRITING">>,
                     !.indexed = (collections[collection_name(user_id)] # <<>>)]]
    /\ UNCHANGED <<collections, documents, up, quizVars, kgVars>>

\* graph.invoke runs the node the invocation is at; a node that raises ends
\* the try block, the last node's return ends query_documents
GraphStep(i, out) ==
    /\ inv[i].pc \in Nodes
    /\ LET node == inv[i].pc
           r == RunNode(node, state_of(i), collections, out)
           state == IF r.raised THEN state_of(i) ELSE r.update @@ state_of(i)
           next == Successor(node)
           logged == [inv[i] EXCEPT !.calls = @ \o r.calls, !.state = state]
       IN inv' = [inv EXCEPT ![i] =
             IF r.raised
             THEN [logged EXCEPT !.pc = "fallback", !.trace = Append(@, "FAILED")]
             ELSE IF next = "END"
             THEN [logged EXCEPT !.pc = "done", !.trace = Append(@, "DONE"),
                      !.result = pipeline_result(state), !.status = 200]
             ELSE [logged EXCEPT !.pc = next, !.trace = Append(@, StageOf(next))]]
    /\ UNCHANGED <<collections, documents, up, quizVars, kgVars>>

\* except Exception: response = await self.llm.ainvoke(f"{mode}: {query}");
\* an exception here leaves query_documents and query_rag answers 500
FallbackStep(i, out) ==
    /\ inv[i].pc = "fallback"
    /\ LET prompt == fallback_prompt(inv[i].mode, inv[i].question, state_of(i))
           logged == [inv[i] EXCEPT !.pc = "done",
                         !.calls = Append(@, Call("ainvoke", prompt, out.llmOk, out.text))]
       IN inv' = [inv EXCEPT ![i] =
             IF out.llmOk
             THEN [logged EXCEPT !.result = [answer |-> out.text, sources |-> <<>>],
                      !.status = 200]
             ELSE [logged EXCEPT !.status = 500]]
    /\ UNCHANGED <<collections, documents, up, quizVars, kgVars>>

QueryNext(I) ==
    \/ \E i \in I, query \in Questions, user_id \in Owners, mode \in Modes,
          messages \in PriorMessages : StartQuery(i, query, user_id, mode, messages)
    \/ \E i \in I : \E out \in OutcomesOf(inv[i].pc) : GraphStep(i, out)
    \/ \E i \in I : \E out \in OutcomesOf("fallback") : FallbackStep(i, out)

\* query_documents run from start to end with nothing else in between: the
\* nodes in graph order over one state, then the return or the fallback
RECURSIVE graph_invoke(_, _, _, _, _, _)
graph_invoke(node, state, store, outs, calls, trace) ==
    IF node = "END"
    THEN [raised |-> FALSE, state |-> state, calls |-> calls, trace |-> trace]
    ELSE LET r == RunNode(node, state, store, outs[node])
         IN IF r.raised
            THEN [raised |-> TRUE, state |-> state, calls |-> calls \o r.calls,
                  trace |-> Append(trace, "FAILED")]
            ELSE graph_invoke(Successor(node), r.update @@ state, store, outs,
                              calls \o r.calls,
                              Append(trace, StageOf(Successor(node))))

query_documents(query, user_id, mode, messages, store, outs) ==
    LET start == initial_state(query, user_id, messages)
        g == graph_invoke("analyze_query", start, store, outs, <<>>, <<"REWRITING">>)
        out == outs["fallback"]
        prompt == fallback_prompt(mode, query, g.state)
    IN IF ~g.raised
       THEN [result |-> pipeline_result(g.state), status |-> 200,
             state |-> g.state, calls |-> g.calls, trace |-> g.trace]
       ELSE [result |-> IF out.llmOk THEN [answer |-> out.text, sources |-> <<>>]
                        ELSE NoResult,
             status |-> IF out.llmOk THEN 200 ELSE 500,
             state |-> g.state,
             calls |-> Append(g.calls, Call("ainvoke", prompt, out.llmOk, out.text)),
             trace |-> g.trace]

\* ---------------------------------------------------------------- quizzes
\* A Provider response is a sequence of tokens: brackets and commas, JSON
\* objects (a question with a correct_answer, a question without one) and
\* prose that is no JSON.
Tokens == {"[", "]", ",", "qA", "qN", "prose"}

Texts == UNION {[1..n -> Tokens] : n \in 0..MaxLen}

Options == <<"A) Option 1", "B) Option 2", "C) Option 3", "D) Option 4">>

Obj(fields) == [t |-> "object", v |-> fields]
Arr(items) == [t |-> "array", v |-> items]

ObjectOf(token) ==
    IF token = "qA"
    THEN Obj([question |-> "Q1", options |-> Options, correct_answer |-> "A",
              explanation |-> "E1"])
    ELSE Obj([question |-> "Q2", options |-> Options])

\* json.loads: a recursive-descent parse of one value starting at token i
\* (an object token, or an array of comma-separated values); next is the
\* index after the value
RECURSIVE ParseValue(_, _)
RECURSIVE ParseItems(_, _, _)
ParseFail == [ok |-> FALSE, val |-> Arr(<<>>), next |-> 0]

ParseItems(s, i, acc) ==
    LET item == ParseValue(s, i)
    IN IF ~item.ok \/ item.next > Len(s) THEN ParseFail
       ELSE IF s[item.next] = "]"
       THEN [ok |-> TRUE, val |-> Arr(Append(acc, item.val)), next |-> item.next + 1]
       ELSE IF s[item.next] = ","
       THEN ParseItems(s, item.next + 1, Append(acc, item.val))
       ELSE ParseFail

ParseValue(s, i) ==
    IF i > Len(s) THEN ParseFail
    ELSE IF s[i] \in {"qA", "qN"}
    THEN [ok |-> TRUE, val |-> ObjectOf(s[i]), next |-> i + 1]
    ELSE IF s[i] = "["
    THEN IF i < Len(s) /\ s[i + 1] = "]"
         THEN [ok |-> TRUE, val |-> Arr(<<>>), next |-> i + 2]
         ELSE ParseItems(s, i + 1, <<>>)
    ELSE ParseFail

\* json.loads(text): the whole text must be one value
json_loads(s) ==
    LET r == ParseValue(s, 1)
    IN IF r.ok /\ r.next = Len(s) + 1 THEN r ELSE ParseFail

Min(S) == CHOOSE x \in S : \A y \in S : x <= y
Max(S) == CHOOSE x \in S : \A y \in S : x >= y

\* re.search(r'\[.*\]', content, re.DOTALL): from the first "[" to the last
\* "]" of the text (".*" is greedy), or no match
regex_search(s) ==
    LET opens == {i \in DOMAIN s : s[i] = "["}
        closes == {j \in DOMAIN s : s[j] = "]"}
    IN IF opens # {} /\ closes # {} /\ Min(opens) < Max(closes)
       THEN [found |-> TRUE, group |-> SubSeq(s, Min(opens), Max(closes))]
       ELSE [found |-> FALSE, group |-> <<>>]

\* the except clause's one-question list
Placeholder ==
    Arr(<<Obj([question |-> "Sample question about the topic", options |-> Options,
              correct_answer |-> "A", explanation |-> "This is a sample question."])>>)

\* generate_quiz after the Provider has answered with content
generate_quiz(content) ==
    LET json_match == regex_search(content)
        parsed == IF json_match.found THEN json_loads(json_match.group)
                  ELSE json_loads(content)
    IN IF parsed.ok THEN parsed.val ELSE Placeholder

\* mastery and quiz scores are fractions in lowest terms
RECURSIVE Gcd(_, _)
Gcd(a, b) == IF b = 0 THEN a ELSE Gcd(b, a % b)

Frac(n, d) == LET g == Gcd(n, d) IN [num |-> n \div g, den |-> d \div g]

\* (fault variant: the scores are added and not halved)
HalfSum_unhalved(a, b) == Frac(a.num * b.den + b.num * a.den, a.den * b.den)

\* (a + b) / 2
HalfSum(a, b) == Frac(a.num * b.den + b.num * a.den, 2 * a.den * b.den)

\* str(idx)
Digits == <<"0", "1", "2", "3", "4", "5", "6", "7", "8", "9">>
Str(idx) == Digits[idx + 1]

Letters == {"A", "B"}

\* the answers maps a submission may carry: question index -> letter
AnswerMaps == UNION {[{Str(idx) : idx \in S} -> Letters] : S \in SUBSET (0..(MaxAnswers - 1))}

\* len(quiz.questions) and enumerate(quiz.questions) need a list, and
\* question.get an object
Scorable(questions) ==
    /\ questions.t = "array"
    /\ \A n \in DOMAIN questions.v : questions.v[n].t = "object"

\* the scoring loop of submit_quiz
correct_count(questions, answers) ==
    Cardinality({idx \in 0..(Len(questions.v) - 1) :
        Get(answers, Str(idx)) = Get(questions.v[idx + 1].v, "correct_answer")})

quiz_score(correct, total) == IF total > 0 THEN Frac(correct, total) ELSE Frac(0, 1)

NoProgress == [exists |-> FALSE, mastery_score |-> Frac(0, 1), quizzes_taken |-> 0,
               study_time_minutes |-> 0]

Topic == "tla"

\* POST /quiz/generate: the Provider call is outside generate_quiz's try
GenerateQuiz(user_id, content, llmOk) ==
    /\ quiz = <<>>
    /\ IF llmOk
       THEN LET questions == generate_quiz(content)
            IN /\ quiz' = Append(quiz, [id |-> Len(quiz) + 1, user_id |-> user_id,
                                        topic |-> Topic, questions |-> questions])
               /\ sub' = [op |-> "generate", status |-> 200, content |-> content,
                          body |-> questions]
       ELSE /\ sub' = [op |-> "generate", status |-> 500, content |-> <<>>,
                       body |-> Arr(<<>>)]
            /\ UNCHANGED quiz
    /\ UNCHANGED <<ragVars, kgVars, results, progress>>

\* POST /quiz/submit
SubmitQuiz(quiz_id, user_id, answers) ==
    /\ Len(results) < MaxSubmits
    /\ IF quiz_id \notin DOMAIN quiz
       THEN /\ sub' = [op |-> "submit", status |-> 404, content |-> answers,
                       body |-> Arr(<<>>)]
            /\ UNCHANGED <<results, progress>>
       ELSE IF ~Scorable(quiz[quiz_id].questions)
       THEN /\ sub' = [op |-> "submit", status |-> 500, content |-> answers,
                       body |-> Arr(<<>>)]
            /\ UNCHANGED <<results, progress>>
       ELSE LET questions == quiz[quiz_id].questions
                total == Len(questions.v)
                correct == correct_count(questions, answers)
                score == quiz_score(correct, total)
                old == progress[user_id]
            IN /\ results' = Append(results,
                      [quiz_id |-> quiz_id, user_id |-> user_id, score |-> score,
                       total_questions |-> total, answers |-> answers])
               /\ progress' = [progress EXCEPT ![user_id] =
                      IF old.exists
                      THEN [old EXCEPT !.quizzes_taken = @ + 1,
                                       !.mastery_score = HalfSum(@, score)]
                      ELSE [NoProgress EXCEPT !.exists = TRUE,
                                              !.mastery_score = score,
                                              !.quizzes_taken = 1]]
               /\ sub' = [op |-> "submit", status |-> 200, content |-> answers,
                          body |-> [score |-> score, correct |-> correct,
                                    total |-> total, quiz_id |-> quiz_id]]
    /\ UNCHANGED <<ragVars, kgVars, quiz>>

\* submit_quiz served by two workers of the server at once, each with its
\* own database session: a worker reads the quiz and the Progress row, and
\* its commit writes the columns it assigned, computed from the row it read
Workers == {1, 2}

IdleWorker ==
    [pc |-> "start", quiz_id |-> 0, user_id |-> 0, answers |-> <<>>,
     score |-> Frac(0, 1), seen |-> NoProgress, status |-> 0, stale |-> FALSE,
     inserted |-> FALSE]

\* (fault variant: the write-back is computed from the row as it is at the
\* commit, as an UPDATE ... SET quizzes_taken = quizzes_taken + 1 would)
written_row_atomic(seen, current, score) ==
    IF current.exists
    THEN [current EXCEPT !.quizzes_taken = @ + 1,
                         !.mastery_score = HalfSum(@, score)]
    ELSE [NoProgress EXCEPT !.exists = TRUE, !.mastery_score = score,
                            !.quizzes_taken = 1]

\* the row the commit leaves as the first row of (user, topic): seen is the
\* row the session read, current the row in the store at the commit.  The
\* UPDATE sets quizzes_taken and mastery_score to the values computed from
\* seen; an INSERT next to an existing row leaves that row first.
written_row(seen, current, score) ==
    IF seen.exists
    THEN [current EXCEPT !.quizzes_taken = seen.quizzes_taken + 1,
                         !.mastery_score = HalfSum(seen.mastery_score, score)]
    ELSE IF current.exists
    THEN current
    ELSE [NoProgress EXCEPT !.exists = TRUE, !.mastery_score = score,
                            !.quizzes_taken = 1]

\* submit_quiz up to the Progress query
SubmitLoad(w, quiz_id, user_id, answers) ==
    /\ subm[w].pc = "start"
    /\ subm' = [subm EXCEPT ![w] =
          IF quiz_id \notin DOMAIN quiz
          THEN [IdleWorker EXCEPT !.pc = "done", !.user_id = user_id, !.status = 404]
          ELSE IF ~Scorable(quiz[quiz_id].questions)
          THEN [IdleWorker EXCEPT !.pc = "done", !.user_id = user_id, !.status = 500]
          ELSE LET questions == quiz[quiz_id].questions
                   total == Len(questions.v)
                   correct == correct_count(questions, answers)
               IN [IdleWorker EXCEPT !.pc = "loaded", !.quiz_id = quiz_id,
                      !.user_id = user_id, !.answers = answers,
                      !.score = quiz_score(correct, total),
                      !.seen = progress[user_id]]]
    /\ UNCHANGED <<ragVars, quizVars, kg>>

\* submit_quiz from the Progress update to the commit and the response
SubmitCommit(w) ==
    /\ subm[w].pc = "loaded"
    /\ LET user_id == subm[w].user_id
           seen == subm[w].seen
           current == progress[user_id]
       IN /\ results' = Append(results,
                 [quiz_id |-> subm[w].quiz_id, user_id |-> user_id,
                  score |-> subm[w].score,
                  total_questions |-> Len(quiz[subm[w].quiz_id].questions.v),
                  answers |-> subm[w].answers])
          /\ progress' = [progress EXCEPT ![user_id] =
                              written_row(seen, current, subm[w].score)]
          /\ subm' = [subm EXCEPT ![w] =
                 [@ EXCEPT !.pc = "done", !.status = 200,
                           !.stale = (seen # current),
                           !.inserted = ~seen.exists]]
    /\ UNCHANGED <<ragVars, kg, quiz, sub>>

\* POST /progress/update for the topic the quizzes are about: a new row
\* gets the column defaults of Progress (mastery_score 0.0, quizzes_taken 0)
UpdateProgress(user_id, minutes) ==
    /\ progress[user_id].study_time_minutes + minutes <= MaxStudy
    /\ LET old == progress[user_id]
           row == IF old.exists
                  THEN [old EXCEPT !.study_time_minutes = @ + minutes]
                  ELSE [NoProgress EXCEPT !.exists = TRUE,
                                          !.study_time_minutes = minutes]
       IN /\ progress' = [progress EXCEPT ![user_id] = row]
          /\ sub' = [op |-> "progress", status |-> 200, content |-> <<>>,
                     body |-> row]
    /\ UNCHANGED <<ragVars, kgVars, quiz, results>>

\* ------------------------------------------------------ knowledge graph
\* A Provider response to the graph prompt is a sequence of tokens: braces
\* and commas, members of a JSON object ("nodes" with two well-formed nodes,
\* "nodes" with a node that has no id, "edges" with a well-formed edge,
\* "edges" with an edge that has no target) and prose that is no JSON.
GraphTokens == {"{", "}", ",", "N2", "N0", "E1", "E0", "prose"}

GraphTexts == UNION {[1..n -> GraphTokens] : n \in 0..MaxGraphLen}

MemberTokens == {"N2", "N0", "E1", "E0"}

MemberKey(token) == IF token \in {"N2", "N0"} THEN "nodes" ELSE "edges"

MemberValue(token) ==
    CASE token = "N2" -> <<[id |-> "a", label |-> "A", type |-> "core"],
                           [id |-> "b", label |-> "B", type |-> "detail"]>>
      [] token = "N0" -> <<[label |-> "A", type |-> "core"]>>
      [] token = "E1" -> <<[source |-> "a", target |-> "b", relationship |-> "requires"]>>
      [] token = "E0" -> <<[source |-> "a"]>>

\* json.loads of an object text: "{", members separated by commas, "}";
\* a key given twice keeps its last value
IsObjectText(s) ==
    /\ Len(s) >= 2
    /\ s[1] = "{" /\ s[Len(s)] = "}"
    /\ \/ Len(s) = 2
       \/ /\ Len(s) % 2 = 1
          /\ \A n \in 2..(Len(s) - 1) :
               IF n % 2 = 0 THEN s[n] \in MemberTokens ELSE s[n] = ","

json_loads_object(s) ==
    LET keys == {MemberKey(s[n]) : n \in {m \in 2..(Len(s) - 1) : s[m] \in MemberTokens}}
        last(key) == Max({n \in 2..(Len(s) - 1) :
                            s[n] \in MemberTokens /\ MemberKey(s[n]) = key})
    IN [key \in keys |-> MemberValue(s[last(key)])]

\* re.search(r'\{.*\}', content, re.DOTALL): from the first "{" to the last
\* "}" of the text, or no match
regex_search_object(s) ==
    LET opens == {i \in DOMAIN s : s[i] = "{"}
        closes == {j \in DOMAIN s : s[j] = "}"}
    IN IF opens # {} /\ closes # {} /\ Min(opens) < Max(closes)
       THEN [found |-> TRUE, group |-> SubSeq(s, Min(opens), Max(closes))]
       ELSE [found |-> FALSE, group |-> <<>>]

\* the except clause's graph
FallbackGraph(topic) ==
    [nodes |-> <<[id |-> "main_topic", label |-> topic, type |-> "core",
                  x |-> 0, y |-> 0]>>,
     edges |-> <<>>]

NodeIds == {"a", "b"}

\* nx.spring_layout: a position for every node of G (coordinates in [-1, 1])
Layouts == [NodeIds -> {[x |-> 0, y |-> 0], [x |-> 1, y |-> -1]}]

\* what makes the try block of build_graph raise
GraphRaises(content, layoutOk) ==
    LET json_match == regex_search_object(content)
        text == IF json_match.found THEN json_match.group ELSE content
    IN \/ ~IsObjectText(text)
       \/ LET graph_data == json_loads_object(text)
          IN \/ "nodes" \notin DOMAIN graph_data
             \/ "edges" \notin DOMAIN graph_data
             \/ \E n \in DOMAIN graph_data.nodes : "id" \notin DOMAIN graph_data.nodes[n]
             \/ \E n \in DOMAIN graph_data.edges :
                    \/ "source" \notin DOMAIN graph_data.edges[n]
                    \/ "target" \notin DOMAIN graph_data.edges[n]
             \/ ~layoutOk

\* build_graph after the Provider has answered with content
build_graph(content, topic, layoutOk, pos) ==
    IF GraphRaises(content, layoutOk)
    THEN FallbackGraph(topic)
    ELSE LET graph_data == json_loads_object(regex_search_object(content).group)
         IN [graph_data EXCEPT !.nodes =
                [n \in DOMAIN graph_data.nodes |->
                    LET node == graph_data.nodes[n]
                    IN [key \in DOMAIN node \cup {"x", "y"} |->
                           CASE key = "x" -> pos[node.id].x * LayoutScale
                             [] key = "y" -> pos[node.id].y * LayoutScale
                             [] OTHER -> node[key]]]]

GraphTopics == {"tla", "logic"}

NoGraph == [rows |-> <<>>, status |-> 0, topic |-> None, content |-> <<>>,
            llmOk |-> TRUE, layoutOk |-> TRUE, body |-> FallbackGraph(None)]

\* POST /knowledge-graph/generate: the Provider call of build_graph is before
\* its try block; an exception there reaches the handler's except clause
GenerateKnowledgeGraph(topic, content, llmOk, layoutOk, pos) ==
    /\ kg.rows = <<>>
    /\ IF llmOk
       THEN LET graph_data == build_graph(content, topic, layoutOk, pos)
            IN kg' = [rows |-> <<graph_data>>, status |-> 200, topic |-> topic,
                      content |-> content, llmOk |-> TRUE, layoutOk |-> layoutOk,
                      body |-> graph_data]
       ELSE kg' = [NoGraph EXCEPT !.status = 500, !.topic = topic, !.llmOk = FALSE]
    /\ UNCHANGED <<ragVars, quizVars, subm>>

\* ------------------------------------------------------- specifications
EmptyStore == [o \in Owners |-> <<>>]

NoRequest == [op |-> "none", status |-> 0, content |-> <<>>, body |-> Arr(<<>>)]

NoSubmissions == <<>>

Init ==
    /\ collections = EmptyStore
    /\ documents = <<>>
    /\ up = IdleUpload
    /\ inv = [i \in Invocations |-> IdleInvocation]
    /\ quiz = <<>>
    /\ results = <<>>
    /\ progress = [u \in Owners |-> NoProgress]
    /\ sub = NoRequest
    /\ subm = NoSubmissions
    /\ kg = NoGraph

\* uploads and queries, one request of each kind in progress at a time
Next == UploadNext \/ QueryNext({1})

Spec == Init /\ [][Next]_vars

\* two /query requests in progress at once, over a store that is empty or
\* holds one indexed document
InitConc ==
    /\ \E indexed \in BOOLEAN :
          /\ collections = IF indexed
                           THEN index_document(EmptyStore, "notes.pdf", 1, 1, TRUE).store
                           ELSE EmptyStore
          /\ documents = IF indexed
                         THEN <<[id |-> 1, user_id |-> 1, filename |-> "notes.pdf",
                                 content_preview |-> "summary"]>>
                         ELSE <<>>
    /\ up = IdleUpload
    /\ inv = [i \in Invocations |-> IdleInvocation]
    /\ quiz = <<>>
    /\ results = <<>>
    /\ progress = [u \in Owners |-> NoProgress]
    /\ sub = NoRequest
    /\ subm = NoSubmissions
    /\ kg = NoGraph

NextConc == QueryNext(Invocations)

ConcSpec == InitConc /\ [][NextConc]_vars

\* quiz generation and submission
NextQuiz ==
    \/ /\ quiz = <<>>
       /\ \E user_id \in Owners, content \in Texts, llmOk \in BOOLEAN :
             GenerateQuiz(user_id, content, llmOk)
    \/ \E quiz_id \in 1..2, user_id \in Owners, answers \in AnswerMaps :
          SubmitQuiz(quiz_id, user_id, answers)

QuizSpec == Init /\ [][NextQuiz]_vars

\* Provider responses to the quiz prompt that give a one-question list, two
\* two-question lists, an empty list, a lone object and prose
QuizTexts ==
    {<<"[", "qA", "]">>, <<"[", "qA", ",", "qA", "]">>, <<"[", "qA", ",", "qN", "]">>,
     <<"[", "]">>, <<"qA">>, <<"prose">>}

\* answers maps that answer nothing, the first question right or wrong, and
\* both questions
QuizAnswers ==
    {<<>>, [key \in {"0"} |-> "A"], [key \in {"0"} |-> "B"], [key \in {"0", "1"} |-> "A"]}

\* quizzes, their submissions and study-time updates, one request at a time
NextProgress ==
    \/ /\ quiz = <<>>
       /\ \E user_id \in Owners, content \in QuizTexts, llmOk \in BOOLEAN :
             GenerateQuiz(user_id, content, llmOk)
    \/ \E quiz_id \in 1..2, user_id \in Owners, answers \in QuizAnswers :
          SubmitQuiz(quiz_id, user_id, answers)
    \/ \E user_id \in Owners, minutes \in 1..MaxStudy :
          UpdateProgress(user_id, minutes)

ProgressSpec == Init /\ [][NextProgress]_vars

\* two submissions in progress at once, over a store that holds one quiz and
\* the Progress rows that study-time updates have left
InitRace ==
    /\ collections = EmptyStore
    /\ documents = <<>>
    /\ up = IdleUpload
    /\ inv = [i \in Invocations |-> IdleInvocation]
    /\ \E content \in QuizTexts :
          quiz = <<[id |-> 1, user_id |-> 1, topic |-> Topic,
                    questions |-> generate_quiz(content)]>>
    /\ results = <<>>
    /\ progress \in [Owners -> {NoProgress,
                                [NoProgress EXCEPT !.exists = TRUE,
                                                   !.study_time_minutes = 1]}]
    /\ sub = NoRequest
    /\ subm = [w \in Workers |-> IdleWorker]
    /\ kg = NoGraph

NextRace ==
    \/ \E w \in Workers, quiz_id \in 1..2, user_id \in Owners, answers \in QuizAnswers :
          SubmitLoad(w, quiz_id, user_id, answers)
    \/ \E w \in Workers : SubmitCommit(w)

RaceSpec == InitRace /\ [][NextRace]_vars

\* knowledge-graph generation
NextKg ==
    /\ kg.rows = <<>>
    /\ \E topic \in GraphTopics, content \in GraphTexts, llmOk \in BOOLEAN,
          layoutOk \in BOOLEAN, pos \in Layouts :
          GenerateKnowledgeGraph(topic, content, llmOk, layoutOk, pos)

KgSpec == Init /\ [][NextKg]_vars

\* ----------------------------------------------------------- properties
Finished(i) == inv[i].pc = "done"

\* the invocation went through the except clause
FellBack(i) == inv[i].pc \in {"fallback", "done"} /\ "FAILED" \in {inv[i].trace[n] : n \in DOMAIN inv[i].trace}

\* no collaborator call of the invocation failed
NoInjectedFailure(i) == \A n \in DOMAIN inv[i].calls : inv[i].calls[n].ok

CallsTo(i, api) == {n \in DOMAIN inv[i].calls : inv[i].calls[n].api = api}

\* C1: query_documents never raises: whatever Provider and Vector Store calls
\* fail, every finished invocation has returned a value (with empty sources
\* when it fell back) and /query answered without an error.
C1_NeverRaises ==
    \A i \in Invocations :
        Finished(i) =>
            /\ inv[i].status = 200
            /\ inv[i].result.answer # None
            /\ (FellBack(i) => inv[i].result.sources = <<>>)

\* C2: a query by an owner whose collection held indexed chunks when it
\* started, and none of whose Provider and Vector Store calls failed, ends
\* DONE after REWRITING, RETRIEVING, GENERATING with non-empty sources whose
\* texts are chunks of that owner's collection.
C2_EndToEnd ==
    \A i \in Invocations :
        (Finished(i) /\ inv[i].indexed /\ NoInjectedFailure(i)) =>
            /\ inv[i].trace = <<"REWRITING", "RETRIEVING", "GENERATING", "DONE">>
            /\ inv[i].result.sources # <<>>
            /\ \A n \in DOMAIN inv[i].result.sources :
                 \E c \in DOMAIN collections[inv[i].user_id] :
                    collections[inv[i].user_id][c].page_content
                        = inv[i].result.sources[n].content

\* C3: owner isolation: every chunk of owner u's collection is tagged u, an
\* indexing for u changes no other owner's collection, and the sources of a
\* query by u hold no chunk tagged with another owner.
ChunksTagged ==
    \A u \in Owners : \A n \in DOMAIN collections[u] :
        collections[u][n].metadata.user_id = u

SourcesOwned ==
    \A i \in Invocations : \A n \in DOMAIN inv[i].result.sources :
        inv[i].result.sources[n].metadata.user_id = inv[i].user_id

IndexLeavesOthers ==
    \A u \in Owners :
        collections'[u] # collections[u] => (up.pc = "index" /\ up.user_id = u)

C3_OwnerIsolation == [](ChunksTagged /\ SourcesOwned) /\ [][IndexLeavesOthers]_vars

C3_Witness ==
    /\ collections[1] # <<>>
    /\ collections[2] # <<>>
    /\ Finished(1) /\ inv[1].status = 200 /\ inv[1].indexed

StageOrder == <<"REWRITING", "RETRIEVING", "GENERATING", "DONE">>

ValidTraces ==
    {SubSeq(StageOrder, 1, n) : n \in 0..4}
        \cup {Append(SubSeq(StageOrder, 1, n), "FAILED") : n \in 1..3}

C6_EmptyRetrieval ==
    \A i \in Invocations :
        (Finished(i) /\ NoInjectedFailure(i) /\ CallsTo(i, "with_structured_output") # {}) =>
            /\ ~FellBack(i)
            /\ inv[i].trace[Len(inv[i].trace)] = "DONE"
            /\ inv[i].result.sources = <<>>

\* C7: with two invocations in progress at once, each invocation ends with
\* the pipeline state, the requests, the stages and the result that
\* query_documents gives when run alone on the invocation's own arguments
\* with the same store and the same Provider responses.
OutcomeOfCall(calls, api) ==
    IF \E n \in DOMAIN calls : calls[n].api = api
    THEN LET c == calls[CHOOSE n \in DOMAIN calls : calls[n].api = api]
         IN [llmOk |-> c.ok, storeOk |-> c.ok,
             structured |-> IF api = "with_structured_output" /\ c.ok
                            THEN c.response ELSE DefaultOutcome.structured,
             text |-> IF api \in {"invoke", "ainvoke"} /\ c.ok
                      THEN c.response ELSE DefaultOutcome.text]
    ELSE DefaultOutcome

OutcomesSeen(calls) ==
    [node \in Nodes \cup {"fallback"} |->
        OutcomeOfCall(calls,
            CASE node = "analyze_query" -> "with_structured_output"
              [] node = "retrieve" -> "similarity_search"
              [] node = "generate" -> "invoke"
              [] node = "fallback" -> "ainvoke")]

C7_InvocationIsolation ==
    \A i \in Invocations :
        Finished(i) =>
            LET alone == query_documents(inv[i].question, inv[i].user_id, inv[i].mode,
                             inv[i].messages, collections, OutcomesSeen(inv[i].calls))
            IN /\ inv[i].result = alone.result
               /\ inv[i].status = alone.status
               /\ inv[i].state = alone.state
               /\ inv[i].calls = alone.calls
               /\ inv[i].trace = alone.trace

C7_Witness ==
    /\ Finished(1) /\ Finished(2)
    /\ inv[1].user_id # inv[2].user_id
    /\ inv[1].question # inv[2].question
    /\ inv[1].status = 200 /\ inv[2].status = 200
    /\ inv[1].result # inv[2].result

\* C9: an upload whose document cannot be loaded, or whose embedding / store
\* call fails, calls index_document once, gets no chunk count and answers with
\* an error; index_document is never called twice for one upload.
IndexingFailed == ~Loadable(up.file) \/ ~up.storeOk

C9_IndexingSurfaced ==
    /\ up.index_calls <= 1
    /\ (up.pc # "index" /\ up.index_calls = 1 /\ IndexingFailed) =>
          /\ up.pc = "idle"
          /\ up.response.status = 500
          /\ "chunks_indexed" \notin DOMAIN up.response
          /\ up.chunks_count = 0

C9_Witness ==
    /\ up.pc = "idle" /\ up.index_calls = 1 /\ Loadable(up.file) /\ ~up.storeOk
    /\ up.response.status = 500

\* the first well-formed JSON array of a text: the array that starts at the
\* leftmost "[" from which a whole array can be read
ArrayStarts(s) == {i \in DOMAIN s : s[i] = "[" /\ ParseValue(s, i).ok}

HasArray(s) == ArrayStarts(s) # {}

FirstArray(s) == ParseValue(s, Min(ArrayStarts(s))).val

\* C8: a scored submission's score is the number of questions whose submitted
\* letter equals the question's correct-answer letter, over the number of
\* questions; a question without a submitted answer is no match; no
\* questions give 0.
LetterMatches(questions, answers) ==
    {idx \in 0..(Len(questions.v) - 1) :
        /\ Str(idx) \in DOMAIN answers
        /\ "correct_answer" \in DOMAIN questions.v[idx + 1].v
        /\ answers[Str(idx)] = questions.v[idx + 1].v.correct_answer}

C8_QuizScoring ==
    (sub.op = "submit" /\ sub.status = 200) =>
        LET questions == quiz[sub.body.quiz_id].questions
            N == Len(questions.v)
            matches == Cardinality(LetterMatches(questions, sub.content))
        IN sub.body.score = IF N = 0 THEN Frac(0, 1) ELSE Frac(matches, N)

\* C10: generate_quiz returns the first well-formed JSON array of the
\* Provider's text when the text holds one, and the placeholder list when the
\* text holds no JSON at all.
C10_QuizParsing ==
    (sub.op = "generate" /\ sub.status = 200) =>
        /\ HasArray(sub.content) => sub.body = FirstArray(sub.content)
        /\ (~HasArray(sub.content) /\ ~json_loads(sub.content).ok) =>
              sub.body = Placeholder

\* C11: whenever build_graph fails (the Provider call raises, the output is
\* no JSON object, it lacks "nodes" or "edges", a node has no id, an edge has
\* no end, the layout raises) the request still succeeds and returns exactly
\* the single-node graph of the topic.
GraphFailure == ~kg.llmOk \/ GraphRaises(kg.content, kg.layoutOk)

C11_GraphFallback ==
    (kg.status # 0 /\ GraphFailure) =>
        /\ kg.status = 200
        /\ kg.body = FallbackGraph(kg.topic)

\* C14: when the Rewrite stage has succeeded and RETRIEVING starts, the owner
\* id given to query_documents is still in the pipeline state, so that
\* Retrieve searches that owner's collection and does not fail for lack of it.
C14_OwnerHandoff ==
    \A i \in Invocations :
        inv[i].pc = "retrieve" =>
            /\ "user_id" \in DOMAIN state_of(i).query
            /\ state_of(i).query.user_id = inv[i].user_id

\* C16: an upload that ended with an error leaves no Document row of that
\* upload in the relational store and no chunk of it in the owner's
\* collection.
C16_UploadAtomic ==
    (up.pc = "idle" /\ up.response.status = 500) =>
        /\ \A n \in DOMAIN documents : documents[n].id # up.doc_id
        /\ \A o \in Owners : \A n \in DOMAIN collections[o] :
               collections[o][n].metadata.doc_id # up.doc_id

\* C13: a scored submission for a user who has a Progress row sets
\* mastery_score to (old mastery_score + score) / 2, adds 1 to quizzes_taken
\* and leaves study_time_minutes; without a row it creates one with
\* mastery_score = score and quizzes_taken = 1; mastery_score stays in [0, 1].
MasteryInRange ==
    \A u \in Owners :
        /\ progress[u].mastery_score.den > 0
        /\ 0 <= progress[u].mastery_score.num
        /\ progress[u].mastery_score.num <= progress[u].mastery_score.den

SubmissionStep ==
    results' # results =>
        LET r == results'[Len(results')]
            s == r.score
            old == progress[r.user_id]
            new == progress'[r.user_id]
        IN /\ sub'.op = "submit" /\ sub'.body.score = s
           /\ new.exists
           /\ IF old.exists
              THEN /\ 2 * new.mastery_score.num * old.mastery_score.den * s.den
                        = new.mastery_score.den
                            * (old.mastery_score.num * s.den + s.num * old.mastery_score.den)
                   /\ new.quizzes_taken = old.quizzes_taken + 1
                   /\ new.study_time_minutes = old.study_time_minutes
              ELSE /\ new.mastery_score = s
                   /\ new.quizzes_taken = 1
           /\ \A v \in Owners \ {r.user_id} : progress'[v] = progress[v]

C13_ProgressSmoothing == [](MasteryInRange) /\ [][SubmissionStep]_vars

C13_Witness ==
    /\ sub.op = "submit" /\ sub.status = 200
    /\ \E u \in Owners :
          /\ progress[u].quizzes_taken = 2
          /\ progress[u].mastery_score = Frac(3, 4)

\* C15: after a user's first quiz submission the Progress row has that
\* quiz's score as mastery_score and quizzes_taken = 1, whether or not a
\* study-time update created the row before.
C15_FirstQuizMastery ==
    \A u \in Owners :
        LET mine == {n \in DOMAIN results : results[n].user_id = u}
        IN Cardinality(mine) = 1 =>
              /\ progress[u].mastery_score = results[CHOOSE n \in mine : TRUE].score
              /\ progress[u].quizzes_taken = 1

\* C12: two concurrent submissions of one user can lose an update.  The
\* first Progress row of a user counts the completed submissions of that user
\* except those that wrote back from a row read before another commit
\* changed it; such a submission is lost, and quizzes_taken ends below the
\* number of completed submissions.
Completed(u) ==
    {w \in Workers : subm[w].pc = "done" /\ subm[w].status = 200 /\ subm[w].user_id = u}

C12_LostUpdate ==
    (\A w \in Workers : subm[w].pc = "done") =>
        \A u \in Owners :
            progress[u].quizzes_taken =
                Cardinality(Completed(u))
                    - Cardinality({w \in Completed(u) : subm[w].stale})

C12_Witness ==
    \E u \in Owners :
        /\ Completed(u) = Workers
        /\ progress[u].quizzes_taken < Cardinality(Completed(u))
        /\ subm[1].score # subm[2].score
        /\ \E w \in Workers : progress[u].mastery_score = HalfSum(Frac(0, 1), subm[w].score)

====
